---- MODULE Spec2Model ----
(***************************************************************************)
(* Configuration assembly of the oragono IRC server (irc/config.go):       *)
(*   - Config.OperatorClasses : fixed-point resolution of operator classes *)
(*   - Config.Operators       : binding of operators to resolved classes   *)
(*   - LoadConfig             : validation of the loaded document          *)
(*                                                                         *)
(* Go strings whose characters matter (titles, whois lines, logging type   *)
(* strings) are sequences of one-character strings; names used only as map *)
(* keys are atomic strings, "" being the empty string.                     *)
(***************************************************************************)
EXTENDS Integers, Sequences, FiniteSets, TLC

VARIABLES
    OperClasses,   \* conf.OperClasses : name -> OperClassConfig
    ocs,           \* OperatorClasses' local map : name -> OperClass
    heap,          \* the capability maps made by make(map[string]bool), by reference
    lenOfLastOcs,  \* OperatorClasses' local
    anyMissing,    \* OperatorClasses' local
    todo,          \* keys the current `range conf.OperClasses` has not visited yet
    pc,            \* position inside OperatorClasses
    ret,           \* what the current call of OperatorClasses returned
    prevRet,       \* what the previous call on the same configuration returned
    calls,         \* number of calls of OperatorClasses started so far
    Opers,         \* conf.Opers : name -> OperConfig
    oc,            \* Operators' parameter: the assembled classes
    operators,     \* Operators' local map : casefolded name -> Oper
    opersTodo,     \* keys the `range conf.Opers` has not visited yet
    bindPc,        \* position inside Operators
    bindRet,       \* what Operators returned
    file,          \* what reading and unmarshalling the named file gives
    doc,           \* the document the file holds
    loaded         \* what LoadConfig returned

classVars == <<OperClasses, ocs, heap, lenOfLastOcs, anyMissing, todo, pc, ret, prevRet, calls>>
bindVars == <<Opers, oc, operators, opersTodo, bindPc, bindRet>>
loadVars == <<file, doc, loaded>>
vars == <<classVars, bindVars, loadVars>>

(***************************************************************************)
(* Bounds and input domains                                                *)
(***************************************************************************)
\* calls of OperatorClasses on one configuration (initial load, then rehash)
MaxCalls == 2

\* keys of the oper-classes section
ClassNames == {"a", "b", "c"}

\* a base name that is never a key of the oper-classes section
NoSuchClass == "zz"

Admin == <<"A", "d", "m", "i", "n">>
Bot == <<"B", "o", "t">>
Op == <<"o", "p">>
IsBoss == <<"i", "s", " ", "b", "o", "s", "s">>

\* what a class may carry in the document besides its extends: title, explicit
\* whois-line (empty when absent) and capability list (a list may repeat a token)
ClassProfiles ==
    { [Title |-> Admin, WhoisLine |-> <<>>,   Capabilities |-> <<"k1">>],
      [Title |-> Bot,   WhoisLine |-> <<>>,   Capabilities |-> <<"k2", "k1", "k2">>],
      [Title |-> Op,    WhoisLine |-> <<>>,   Capabilities |-> <<>>],
      [Title |-> <<>>,  WhoisLine |-> <<>>,   Capabilities |-> <<>>],
      [Title |-> <<>>,  WhoisLine |-> IsBoss, Capabilities |-> <<"k3">>] }

\* OperClassConfig records of the document
OperClassConfigs ==
    { [Title |-> p.Title, WhoisLine |-> p.WhoisLine, Extends |-> e,
       Capabilities |-> p.Capabilities] :
        p \in ClassProfiles, e \in {""} \cup ClassNames \cup {NoSuchClass} }

\* every oper-classes section over ClassNames
OperClassSections ==
    UNION { [D -> OperClassConfigs] : D \in SUBSET ClassNames }

EmptyMap == [n \in {} |-> {}]

Range(f) == { f[i] : i \in DOMAIN f }

(***************************************************************************)
(* Shapes of an oper-classes section                                       *)
(***************************************************************************)
\* the class extends a class the section does not hold
Dangling(section, name) ==
    /\ section[name].Extends # ""
    /\ section[name].Extends \notin DOMAIN section

HasDanglingIn(section) == \E name \in DOMAIN section : Dangling(section, name)

\* the k-th class up the extends chain of name ("" when the chain ends before)
RECURSIVE Ancestor(_, _, _)
Ancestor(section, name, k) ==
    IF k = 0 THEN name
    ELSE LET below == Ancestor(section, name, k - 1)
         IN  IF below \in DOMAIN section THEN section[below].Extends ELSE ""

HasCycleIn(section) ==
    \E name \in DOMAIN section :
        \E k \in 1..Cardinality(DOMAIN section) : Ancestor(section, name, k) = name

(***************************************************************************)
(* Go string helpers                                                       *)
(***************************************************************************)
UpperCase == <<"A", "B", "C", "D", "E", "F", "G", "H", "I", "J", "K", "L", "M",
               "N", "O", "P", "Q", "R", "S", "T", "U", "V", "W", "X", "Y", "Z">>
LowerCase == <<"a", "b", "c", "d", "e", "f", "g", "h", "i", "j", "k", "l", "m",
               "n", "o", "p", "q", "r", "s", "t", "u", "v", "w", "x", "y", "z">>

\* strings.ToLower
ToLower(s) ==
    [i \in DOMAIN s |->
        IF \E k \in DOMAIN UpperCase : UpperCase[k] = s[i]
        THEN LowerCase[CHOOSE k \in DOMAIN UpperCase : UpperCase[k] = s[i]]
        ELSE s[i]]

\* strings.Contains(s, substr): substr occurs within s
Contains(s, substr) ==
    \E i \in 0..(Len(s) - Len(substr)) : SubSeq(s, i + 1, i + Len(substr)) = substr

(***************************************************************************)
(* Config.OperatorClasses                                                  *)
(***************************************************************************)
NoBind == [kind |-> "none", name |-> "", class |-> "", operators |-> EmptyMap]
NotLoaded == [kind |-> "none", config |-> EmptyMap]

NoReturn == [kind |-> "none", name |-> "", extends |-> "", classes |-> EmptyMap]

\* the mapping a caller sees through the returned pointer: capability maps read
\* through their references
Assembled ==
    [n \in DOMAIN ocs |->
        [Title |-> ocs[n].Title, WhoisLine |-> ocs[n].WhoisLine,
         Capabilities |-> heap[ocs[n].Capabilities]]]

ReturnOk == [kind |-> "ok", name |-> "", extends |-> "", classes |-> Assembled]
ReturnLooping == [kind |-> "looping", name |-> "", extends |-> "", classes |-> EmptyMap]
ReturnMissingBase(name) ==
    [kind |-> "missingbase", name |-> name, extends |-> OperClasses[name].Extends,
     classes |-> EmptyMap]
\* runtime panic: index out of range
Panicked == [kind |-> "panic", name |-> "", extends |-> "", classes |-> EmptyMap]

\* lines 270-275: the class is not assembled yet and the class it extends is not either
MustWait(name) ==
    /\ name \notin DOMAIN ocs
    /\ OperClasses[name].Extends # ""
    /\ OperClasses[name].Extends \notin DOMAIN ocs

\* lines 306-311: the whois line made from the title; oc.Title[0] needs a first byte
DefaultWhoisLine(title) ==
    <<"i", "s", " ", "a">>
        \o (IF Contains(ToLower(<<title[1]>>), <<"a", "e", "i", "o", "u">>)
            THEN <<"n">> ELSE <<>>)
        \o <<" ">> \o title

\* lines 303-312
WhoisLineOf(info) ==
    IF Len(info.WhoisLine) > 0 THEN info.WhoisLine ELSE DefaultWhoisLine(info.Title)

\* line 307 indexes the title without checking its length
TitleIndexPanics(info) == Len(info.WhoisLine) = 0 /\ Len(info.Title) = 0

\* as CreateOperClass, but the derived class shares its base's capability map
\* instead of copying it into a map of its own
CreateOperClassShared(name) ==
    LET info == OperClasses[name]
        own == Range(info.Capabilities)
        made == Len(heap) + 1
        ref == IF info.Extends # "" THEN ocs[info.Extends].Capabilities ELSE made
    IN  [oc   |-> [Title |-> info.Title, WhoisLine |-> WhoisLineOf(info),
                   Capabilities |-> ref],
         heap |-> IF info.Extends # ""
                  THEN [Append(heap, {}) EXCEPT ![ref] = @ \cup own]
                  ELSE Append(heap, own)]

\* lines 286-312: the new OperClass and the heap after its capability map is
\* made and filled
CreateOperClass(name) ==
    LET info == OperClasses[name]
        inherited == IF info.Extends # ""
                     THEN heap[ocs[info.Extends].Capabilities] ELSE {}
        ref == Len(heap) + 1
    IN  [oc   |-> [Title |-> info.Title, WhoisLine |-> WhoisLineOf(info),
                   Capabilities |-> ref],
         heap |-> Append(heap, inherited \cup Range(info.Capabilities))]

\* no call of OperatorClasses is under way
ClassesIdle ==
    /\ ocs = EmptyMap
    /\ heap = <<>>
    /\ lenOfLastOcs = -1
    /\ anyMissing = FALSE
    /\ todo = {}
    /\ pc = "idle"
    /\ ret = NoReturn
    /\ prevRet = NoReturn
    /\ calls = 0

\* no call of Operators is under way
BindIdle ==
    /\ operators = EmptyMap
    /\ opersTodo = {}
    /\ bindPc = "idle"
    /\ bindRet = NoBind

\* LoadConfig was not called
LoadIdle == loaded = NotLoaded

Init ==
    /\ OperClasses \in OperClassSections
    /\ ClassesIdle
    /\ Opers = EmptyMap
    /\ oc = EmptyMap
    /\ BindIdle
    /\ file = "document"
    /\ doc = EmptyMap
    /\ LoadIdle

\* line 258-261: a call starts
Call ==
    /\ pc = "idle"
    /\ calls < MaxCalls
    /\ calls' = calls + 1
    /\ prevRet' = ret
    /\ ret' = NoReturn
    /\ ocs' = EmptyMap
    /\ heap' = <<>>
    /\ lenOfLastOcs' = -1
    /\ anyMissing' = FALSE
    /\ todo' = {}
    /\ pc' = "for"
    /\ UNCHANGED OperClasses
    /\ UNCHANGED <<bindVars, loadVars>>

Return(r) ==
    /\ ret' = r
    /\ pc' = "idle"

\* lines 263-265: no class was added by the pass before
FailLooping ==
    /\ pc = "for"
    /\ lenOfLastOcs = Cardinality(DOMAIN ocs)
    /\ Return(ReturnLooping)
    /\ UNCHANGED <<OperClasses, ocs, heap, lenOfLastOcs, anyMissing, todo, prevRet, calls>>
    /\ UNCHANGED <<bindVars, loadVars>>

\* lines 266-269: a pass over conf.OperClasses starts
BeginPass ==
    /\ pc = "for"
    /\ lenOfLastOcs # Cardinality(DOMAIN ocs)
    /\ lenOfLastOcs' = Cardinality(DOMAIN ocs)
    /\ anyMissing' = FALSE
    /\ todo' = DOMAIN OperClasses
    /\ pc' = "range"
    /\ UNCHANGED <<OperClasses, ocs, heap, ret, prevRet, calls>>
    /\ UNCHANGED <<bindVars, loadVars>>

\* lines 272-274
VisitExisting(name) ==
    /\ pc = "range"
    /\ name \in todo
    /\ name \in DOMAIN ocs
    /\ todo' = todo \ {name}
    /\ UNCHANGED <<OperClasses, ocs, heap, lenOfLastOcs, anyMissing, pc, ret, prevRet, calls>>
    /\ UNCHANGED <<bindVars, loadVars>>

\* lines 275-280
VisitMissingBase(name) ==
    /\ pc = "range"
    /\ name \in todo
    /\ MustWait(name)
    /\ OperClasses[name].Extends \notin DOMAIN OperClasses
    /\ Return(ReturnMissingBase(name))
    /\ UNCHANGED <<OperClasses, ocs, heap, lenOfLastOcs, anyMissing, todo, prevRet, calls>>
    /\ UNCHANGED <<bindVars, loadVars>>

\* lines 275-283
VisitDeferred(name) ==
    /\ pc = "range"
    /\ name \in todo
    /\ MustWait(name)
    /\ OperClasses[name].Extends \in DOMAIN OperClasses
    /\ anyMissing' = TRUE
    /\ todo' = todo \ {name}
    /\ UNCHANGED <<OperClasses, ocs, heap, lenOfLastOcs, pc, ret, prevRet, calls>>
    /\ UNCHANGED <<bindVars, loadVars>>

\* lines 285-307: the title of a class without whois line is indexed while empty
VisitPanics(name) ==
    /\ pc = "range"
    /\ name \in todo
    /\ name \notin DOMAIN ocs
    /\ ~MustWait(name)
    /\ TitleIndexPanics(OperClasses[name])
    /\ Return(Panicked)
    /\ UNCHANGED <<OperClasses, ocs, heap, lenOfLastOcs, anyMissing, todo, prevRet, calls>>
    /\ UNCHANGED <<bindVars, loadVars>>

\* lines 285-314
VisitCreate(name) ==
    /\ pc = "range"
    /\ name \in todo
    /\ name \notin DOMAIN ocs
    /\ ~MustWait(name)
    /\ ~TitleIndexPanics(OperClasses[name])
    /\ LET new == CreateOperClass(name)
       IN  /\ heap' = new.heap
           /\ ocs' = [n \in DOMAIN ocs \cup {name} |->
                        IF n = name THEN new.oc ELSE ocs[n]]
    /\ todo' = todo \ {name}
    /\ UNCHANGED <<OperClasses, lenOfLastOcs, anyMissing, pc, ret, prevRet, calls>>
    /\ UNCHANGED <<bindVars, loadVars>>

\* lines 317-323: the pass is over and nothing was deferred
ReturnClasses ==
    /\ pc = "range"
    /\ todo = {}
    /\ ~anyMissing
    /\ Return(ReturnOk)
    /\ UNCHANGED <<OperClasses, ocs, heap, lenOfLastOcs, anyMissing, todo, prevRet, calls>>
    /\ UNCHANGED <<bindVars, loadVars>>

\* lines 317-321, 262: the pass is over and some class was deferred
NextPass ==
    /\ pc = "range"
    /\ todo = {}
    /\ anyMissing
    /\ pc' = "for"
    /\ UNCHANGED <<OperClasses, ocs, heap, lenOfLastOcs, anyMissing, todo, ret, prevRet, calls>>
    /\ UNCHANGED <<bindVars, loadVars>>

Next ==
    \/ Call
    \/ FailLooping
    \/ BeginPass
    \/ \E name \in ClassNames : VisitExisting(name)
    \/ \E name \in ClassNames : VisitMissingBase(name)
    \/ \E name \in ClassNames : VisitDeferred(name)
    \/ \E name \in ClassNames : VisitPanics(name)
    \/ \E name \in ClassNames : VisitCreate(name)
    \/ ReturnClasses
    \/ NextPass

Spec == Init /\ [][Next]_vars

(***************************************************************************)
(* Config.Operators                                                        *)
(***************************************************************************)
\* keys of the opers section: two that casefold to the same name and one that
\* is no valid identifier
OperNames == {"Dan", "dan", "bad name"}

GoodHash == "JDJhJDA0"
BadHash == "%%%"

ModesPadded == <<" ", "+", "i", " ">>

\* OperConfig records of the document
OperConfigs ==
    { [Class |-> c, Vhost |-> "", WhoisLine |-> p.WhoisLine, Password |-> h,
       Modes |-> p.Modes] :
        c \in {"a", "b", "nope"}, h \in {GoodHash, BadHash},
        p \in { [WhoisLine |-> <<>>,   Modes |-> ModesPadded],
                [WhoisLine |-> IsBoss, Modes |-> <<>>] } }

OperSections == UNION { [D -> OperConfigs] : D \in SUBSET OperNames }

\* assembled class mappings handed to Operators
AssembledForOpers ==
    LET A == [Title |-> Admin, WhoisLine |-> <<"i", "s", " ", "a", " ">> \o Admin,
              Capabilities |-> {"k1"}]
        B == [Title |-> Bot, WhoisLine |-> <<"i", "s", " ", "a", " ">> \o Bot,
              Capabilities |-> {"k1", "k2"}]
    IN  { EmptyMap, [n \in {"a"} |-> A], [n \in {"a", "b"} |-> IF n = "a" THEN A ELSE B] }

\* CasefoldName: the casefolded name, or an error for an invalid identifier
CasefoldName(name) ==
    CASE name = "Dan" -> [err |-> FALSE, name |-> "dan"]
      [] name = "dan" -> [err |-> FALSE, name |-> "dan"]
      [] OTHER        -> [err |-> TRUE,  name |-> ""]

\* DecodePasswordHash: the bytes of the hash, or an error
DecodePasswordHash(password) ==
    IF password = GoodHash THEN [err |-> FALSE, bytes |-> "bytes"]
    ELSE [err |-> TRUE, bytes |-> ""]

IsSpace(c) == c \in {" ", "\t", "\n", "\r"}

\* strings.TrimSpace
RECURSIVE TrimSpace(_)
TrimSpace(s) ==
    IF Len(s) = 0 THEN s
    ELSE IF IsSpace(s[1]) THEN TrimSpace(Tail(s))
    ELSE IF IsSpace(s[Len(s)]) THEN TrimSpace(SubSeq(s, 1, Len(s) - 1))
    ELSE s

\* as ClassExists, but the lookup's second result is not looked at
ClassExistsUnchecked(class) == TRUE

\* line 349-350: the class is a key of the assembled mapping
ClassExists(class) == class \in DOMAIN oc

\* line 349: the value the lookup gives, the zero OperClass for a missing key
ClassLookup(class) ==
    IF class \in DOMAIN oc THEN oc[class]
    ELSE [Title |-> <<>>, WhoisLine |-> <<>>, Capabilities |-> {}]

\* lines 347-359: the assembled Oper
AssembleOper(opConf) ==
    LET class == ClassLookup(opConf.Class)
    IN  [Class     |-> class,
         WhoisLine |-> IF Len(opConf.WhoisLine) > 0 THEN opConf.WhoisLine
                       ELSE class.WhoisLine,
         Vhost     |-> opConf.Vhost,
         Pass      |-> DecodePasswordHash(opConf.Password).bytes,
         Modes     |-> TrimSpace(opConf.Modes)]

InitOpers ==
    /\ Opers \in OperSections
    /\ oc \in AssembledForOpers
    /\ BindIdle
    /\ OperClasses = EmptyMap
    /\ ClassesIdle
    /\ file = "document"
    /\ doc = EmptyMap
    /\ LoadIdle

\* lines 337-338: the call starts
CallOperators ==
    /\ bindPc = "idle"
    /\ bindRet.kind = "none"
    /\ operators' = EmptyMap
    /\ opersTodo' = DOMAIN Opers
    /\ bindPc' = "range"
    /\ UNCHANGED <<Opers, oc, bindRet>>
    /\ UNCHANGED <<classVars, loadVars>>

BindReturn(r) ==
    /\ bindRet' = r
    /\ bindPc' = "idle"

\* lines 342-345
OperCasefoldFails(name) ==
    /\ bindPc = "range"
    /\ name \in opersTodo
    /\ CasefoldName(name).err
    /\ BindReturn([kind |-> "casefold", name |-> name, class |-> "",
                   operators |-> EmptyMap])
    /\ UNCHANGED <<Opers, oc, operators, opersTodo>>
    /\ UNCHANGED <<classVars, loadVars>>

\* lines 347, 104-108: log.Fatal ends the process
OperPasswordFatal(name) ==
    /\ bindPc = "range"
    /\ name \in opersTodo
    /\ ~CasefoldName(name).err
    /\ DecodePasswordHash(Opers[name].Password).err
    /\ BindReturn([kind |-> "fatal", name |-> name, class |-> "",
                   operators |-> EmptyMap])
    /\ UNCHANGED <<Opers, oc, operators, opersTodo>>
    /\ UNCHANGED <<classVars, loadVars>>

\* lines 349-352
OperUnknownClass(name) ==
    /\ bindPc = "range"
    /\ name \in opersTodo
    /\ ~CasefoldName(name).err
    /\ ~DecodePasswordHash(Opers[name].Password).err
    /\ ~ClassExists(Opers[name].Class)
    /\ BindReturn([kind |-> "unknownclass", name |-> CasefoldName(name).name,
                   class |-> Opers[name].Class, operators |-> EmptyMap])
    /\ UNCHANGED <<Opers, oc, operators, opersTodo>>
    /\ UNCHANGED <<classVars, loadVars>>

\* lines 339-362
OperAttach(name) ==
    /\ bindPc = "range"
    /\ name \in opersTodo
    /\ ~CasefoldName(name).err
    /\ ~DecodePasswordHash(Opers[name].Password).err
    /\ ClassExists(Opers[name].Class)
    /\ LET folded == CasefoldName(name).name
       IN  operators' = [n \in DOMAIN operators \cup {folded} |->
                            IF n = folded THEN AssembleOper(Opers[name])
                            ELSE operators[n]]
    /\ opersTodo' = opersTodo \ {name}
    /\ UNCHANGED <<Opers, oc, bindPc, bindRet>>
    /\ UNCHANGED <<classVars, loadVars>>

\* line 364
ReturnOperators ==
    /\ bindPc = "range"
    /\ opersTodo = {}
    /\ BindReturn([kind |-> "ok", name |-> "", class |-> "", operators |-> operators])
    /\ UNCHANGED <<Opers, oc, operators, opersTodo>>
    /\ UNCHANGED <<classVars, loadVars>>

NextOpers ==
    \/ CallOperators
    \/ \E name \in OperNames : OperCasefoldFails(name)
    \/ \E name \in OperNames : OperPasswordFatal(name)
    \/ \E name \in OperNames : OperUnknownClass(name)
    \/ \E name \in OperNames : OperAttach(name)
    \/ ReturnOperators

SpecOpers == InitOpers /\ [][NextOpers]_vars

(***************************************************************************)
(* LoadConfig                                                              *)
(***************************************************************************)
\* longest logging type string drawn from TypeAlphabet
MaxTypeLen == 4

TypeAlphabet == {"-", " ", "s", "c"}

ServerConnect == <<"s", "e", "r", "v", "e", "r", " ", "-", "c", "o", "n", "n", "e", "c", "t">>

TypeStrings ==
    UNION { [1..n -> TypeAlphabet] : n \in 0..MaxTypeLen } \cup {ServerConnect}

FileStdout == <<"f", "i", "l", "e", " ", "s", "t", "d", "o", "u", "t">>
StderrUpper == <<"S", "T", "D", "E", "R", "R">>
FileOnly == <<"f", "i", "l", "e">>
Info == <<"i", "n", "f", "o">>
WarnMixed == <<"W", "a", "r", "n">>
Loud == <<"l", "o", "u", "d">>

LoggingConfig(m, f, t, l, pre) ==
    [Method |-> m, MethodStdout |-> FALSE, MethodStderr |-> FALSE,
     MethodFile |-> FALSE, Filename |-> f, TypeString |-> t, Types |-> pre.Types,
     ExcludedTypes |-> pre.ExcludedTypes, LevelString |-> l, Level |-> 0]

\* real-types and real-excluded-types are fields the document may set as well
PresetTypes ==
    { [Types |-> <<>>, ExcludedTypes |-> <<>>],
      [Types |-> <<<<"p">>>>, ExcludedTypes |-> <<<<"q">>>>] }

\* LoggingConfig records of the document: every type string under one method and
\* level, and every method, filename and level under a few type strings
LoggingConfigs ==
    { LoggingConfig(StderrUpper, "", t, Info, pre) :
        t \in TypeStrings, pre \in PresetTypes }
    \cup
    { LoggingConfig(m, f, t, l, pre) :
        m \in {FileStdout, StderrUpper, FileOnly, <<>>},
        f \in {"", "ircd.log"},
        t \in {ServerConnect, <<"s">>, <<"-", "s">>, <<"-">>},
        l \in {Info, WarnMixed, Loud},
        pre \in PresetTypes }

\* a directive that normalizes, for documents with several directives
PlainLogging ==
    [Method |-> StderrUpper, MethodStdout |-> FALSE, MethodStderr |-> FALSE,
     MethodFile |-> FALSE, Filename |-> "", TypeString |-> <<"s">>, Types |-> <<>>,
     ExcludedTypes |-> <<>>, LevelString |-> Info, Level |-> 0]

\* operator sections of the documents: none, a chain with an operator, a cycle, a
\* dangling extends, an operator of an unknown class
OperSetups ==
    LET class(e) == [Title |-> Admin, WhoisLine |-> <<>>, Extends |-> e,
                     Capabilities |-> <<"k1">>]
        oper(c) == [Class |-> c, Vhost |-> "", WhoisLine |-> <<>>,
                    Password |-> GoodHash, Modes |-> <<>>]
        dan(c) == [n \in {"dan"} |-> oper(c)]
    IN  { [OperClasses |-> EmptyMap, Opers |-> EmptyMap],
          [OperClasses |-> [n \in {"a", "b"} |-> IF n = "a" THEN class("") ELSE class("a")],
           Opers |-> dan("b")],
          [OperClasses |-> [n \in {"a", "b"} |-> IF n = "a" THEN class("b") ELSE class("a")],
           Opers |-> EmptyMap],
          [OperClasses |-> [n \in {"a"} |-> class(NoSuchClass)], Opers |-> EmptyMap],
          [OperClasses |-> [n \in {"a"} |-> class("")], Opers |-> dan("nope")] }

STSSetups ==
    { [STSEnabled |-> FALSE, STSDurationString |-> "", STSPort |-> 0],
      [STSEnabled |-> TRUE,  STSDurationString |-> "1mo", STSPort |-> 6697],
      [STSEnabled |-> TRUE,  STSDurationString |-> "soon", STSPort |-> 6697],
      [STSEnabled |-> TRUE,  STSDurationString |-> "1mo", STSPort |-> 65536] }

ThrottleSetups ==
    { [ThrottleEnabled |-> FALSE, ThrottleDurationString |-> "",
       ThrottleBanDurationString |-> ""],
      [ThrottleEnabled |-> TRUE, ThrottleDurationString |-> "10m",
       ThrottleBanDurationString |-> "10m"],
      [ThrottleEnabled |-> TRUE, ThrottleDurationString |-> "soon",
       ThrottleBanDurationString |-> "10m"],
      [ThrottleEnabled |-> TRUE, ThrottleDurationString |-> "10m",
       ThrottleBanDurationString |-> "soon"] }

LimitSetups ==
    { [NickLen |-> 32, ChannelLen |-> 64, AwayLen |-> 200, KickLen |-> 390,
       TopicLen |-> 390],
      [NickLen |-> 0, ChannelLen |-> 64, AwayLen |-> 200, KickLen |-> 390,
       TopicLen |-> 390],
      [NickLen |-> 1, ChannelLen |-> 1, AwayLen |-> 1, KickLen |-> 1, TopicLen |-> 1],
      [NickLen |-> 1, ChannelLen |-> 2, AwayLen |-> 1, KickLen |-> 1, TopicLen |-> 1] }

LineLenSetups ==
    { [LineLenTags |-> 512, LineLenRest |-> 512],
      [LineLenTags |-> 511, LineLenRest |-> 2048],
      [LineLenTags |-> 2048, LineLenRest |-> 0] }

CloakSetups ==
    { [IPCloakingEnabled |-> FALSE, IPCloakingUsable |-> FALSE],
      [IPCloakingEnabled |-> TRUE,  IPCloakingUsable |-> TRUE],
      [IPCloakingEnabled |-> TRUE,  IPCloakingUsable |-> FALSE] }

\* the fields LoadConfig fills, at their zero values
Unparsed ==
    [PassConfigPassword |-> "", STSDuration |-> 0, ThrottleDuration |-> 0,
     ThrottleBanDuration |-> 0, MaxSendQBytes |-> 0]

\* a document that sets what the validation asks for and nothing else, but for
\* the given send-queue size, operator sections and logging section
Document(sq, os, lg) ==
    [NetworkName |-> "OragonoNet", ServerName |-> "oragono.test",
     DatastorePath |-> "ircd.db", Listen |-> <<":6667">>, ServerPassword |-> "",
     MaxSendQString |-> sq, Logging |-> lg,
     STSEnabled |-> FALSE, STSDurationString |-> "", STSPort |-> 0,
     ThrottleEnabled |-> FALSE, ThrottleDurationString |-> "",
     ThrottleBanDurationString |-> "",
     NickLen |-> 32, ChannelLen |-> 64, AwayLen |-> 200, KickLen |-> 390,
     TopicLen |-> 390, LineLenTags |-> 512, LineLenRest |-> 512,
     IPCloakingEnabled |-> FALSE, IPCloakingUsable |-> FALSE]
    @@ os @@ Unparsed

SendQStrings == {"", "96k", "lots"}

\* documents that differ in the fields checked first
RequiredDocs ==
    { [NetworkName |-> nn, ServerName |-> sn, DatastorePath |-> dp, Listen |-> li,
       ServerPassword |-> pw] @@ lm @@ Document(sq, os, <<>>) :
        nn \in {"", "OragonoNet"},
        sn \in {"", "oragono.test", "not a hostname"},
        dp \in {"", "ircd.db"},
        li \in {<<>>, <<":6667">>},
        pw \in {"", "hunter2"},
        lm \in LimitSetups, sq \in SendQStrings, os \in OperSetups }

\* documents that differ in the optional sections
OptionalDocs ==
    { st @@ th @@ ll @@ cl @@ Document(sq, os, lg) :
        st \in STSSetups, th \in ThrottleSetups, ll \in LineLenSetups,
        cl \in CloakSetups, sq \in SendQStrings, os \in OperSetups,
        lg \in {<<>>, <<PlainLogging>>} }

\* documents that differ in the logging section
LoggingDocs ==
    { Document("96k", [OperClasses |-> EmptyMap, Opers |-> EmptyMap], lg) :
        lg \in { <<l>> : l \in LoggingConfigs }
               \cup { <<PlainLogging, l>> : l \in { x \in LoggingConfigs :
                        x.Method = StderrUpper /\ x.LevelString = Info
                        /\ Len(x.TypeString) <= 2 } } }

Documents == RequiredDocs \cup OptionalDocs \cup LoggingDocs

\* IsHostname
IsHostname(name) == name = "oragono.test"

\* custime.ParseDuration
CustimeParseDuration(str) ==
    IF str = "1mo" THEN [err |-> FALSE, value |-> 2592000] ELSE [err |-> TRUE, value |-> 0]

\* time.ParseDuration
TimeParseDuration(str) ==
    IF str = "10m" THEN [err |-> FALSE, value |-> 600] ELSE [err |-> TRUE, value |-> 0]

\* bytefmt.ToBytes: a number followed by a unit; the empty string is no byte size
ToBytes(str) ==
    IF str = "96k" THEN [err |-> FALSE, value |-> 98304] ELSE [err |-> TRUE, value |-> 0]

\* cloak.IPv4 on the probe address
CloakProbeFails(d) == ~d.IPCloakingUsable

\* logger.LogLevelNames
LogLevelNames ==
    ( <<"d", "e", "b", "u", "g">> :> 0 ) @@ ( Info :> 1 ) @@ ( <<"w", "a", "r", "n">> :> 2 )
    @@ ( <<"e", "r", "r", "o", "r">> :> 3 )

\* strings.Split(s, " "): the fields between single spaces, empty ones included
RECURSIVE SplitFrom(_, _, _)
SplitFrom(s, i, field) ==
    IF i > Len(s) THEN <<field>>
    ELSE IF s[i] = " " THEN <<field>> \o SplitFrom(s, i + 1, <<>>)
    ELSE SplitFrom(s, i + 1, Append(field, s[i]))

Split(s) == SplitFrom(s, 1, <<>>)

\* lines 451-456: the method names given, lower-cased
Methods(logConfig) ==
    { ToLower(m) : m \in { x \in Range(Split(logConfig.Method)) : Len(x) > 0 } }

\* as TypesAfter, but an excluded type keeps its marker
RECURSIVE TypesAfterUnstripped(_, _, _)
TypesAfterUnstripped(fields, types, excluded) ==
    IF Len(fields) = 0 THEN [err |-> FALSE, Types |-> types, ExcludedTypes |-> excluded]
    ELSE LET typeStr == Head(fields)
         IN  IF Len(typeStr) = 0 THEN TypesAfterUnstripped(Tail(fields), types, excluded)
             ELSE IF typeStr = <<"-">>
                  THEN [err |-> TRUE, Types |-> types, ExcludedTypes |-> excluded]
             ELSE IF typeStr[1] = "-"
                  THEN TypesAfterUnstripped(Tail(fields), types, Append(excluded, typeStr))
             ELSE TypesAfterUnstripped(Tail(fields), Append(types, typeStr), excluded)

\* lines 472-485: the loop over the fields of the type string, appending to the
\* directive's Types and ExcludedTypes
RECURSIVE TypesAfter(_, _, _)
TypesAfter(fields, types, excluded) ==
    IF Len(fields) = 0 THEN [err |-> FALSE, Types |-> types, ExcludedTypes |-> excluded]
    ELSE LET typeStr == Head(fields)
         IN  IF Len(typeStr) = 0 THEN TypesAfter(Tail(fields), types, excluded)
             ELSE IF typeStr = <<"-">>
                  THEN [err |-> TRUE, Types |-> types, ExcludedTypes |-> excluded]
             ELSE IF typeStr[1] = "-"
                  THEN TypesAfter(Tail(fields), types, Append(excluded, Tail(typeStr)))
             ELSE TypesAfter(Tail(fields), Append(types, typeStr), excluded)

\* lines 450-490: one directive, normalized or refused
NormalizeLogging(logConfig) ==
    LET methods == Methods(logConfig)
        level == ToLower(logConfig.LevelString)
        parsed == TypesAfter(Split(logConfig.TypeString), logConfig.Types,
                             logConfig.ExcludedTypes)
    IN  IF FileOnly \in methods /\ logConfig.Filename = ""
        THEN [err |-> "logfilename", config |-> logConfig]
        ELSE IF level \notin DOMAIN LogLevelNames
        THEN [err |-> "loglevel", config |-> logConfig]
        ELSE IF parsed.err
        THEN [err |-> "logbaretype", config |-> logConfig]
        ELSE IF Len(parsed.Types) < 1
        THEN [err |-> "lognotypes", config |-> logConfig]
        ELSE [err |-> "",
              config |-> [logConfig EXCEPT
                            !.MethodFile = FileOnly \in methods,
                            !.MethodStdout = <<"s", "t", "d", "o", "u", "t">> \in methods,
                            !.MethodStderr = <<"s", "t", "d", "e", "r", "r">> \in methods,
                            !.Level = LogLevelNames[level],
                            !.Types = parsed.Types,
                            !.ExcludedTypes = parsed.ExcludedTypes]]

\* lines 448-492: the directives in order, up to the first one refused
RECURSIVE NormalizeAll(_, _)
NormalizeAll(logging, newLogConfigs) ==
    IF Len(logging) = 0 THEN [err |-> "", configs |-> newLogConfigs]
    ELSE LET one == NormalizeLogging(Head(logging))
         IN  IF one.err # "" THEN [err |-> one.err, configs |-> <<>>]
             ELSE NormalizeAll(Tail(logging), Append(newLogConfigs, one.config))

\* lines 402-447: the first check the document fails ("" when it passes them all)
Validation(d) ==
    IF d.NetworkName = "" THEN "networkname"
    ELSE IF d.ServerName = "" THEN "servername"
    ELSE IF ~IsHostname(d.ServerName) THEN "hostname"
    ELSE IF d.DatastorePath = "" THEN "datastore"
    ELSE IF Len(d.Listen) = 0 THEN "listen"
    ELSE IF d.NickLen < 1 \/ d.ChannelLen < 2 \/ d.AwayLen < 1 \/ d.KickLen < 1
            \/ d.TopicLen < 1 THEN "limits"
    ELSE IF d.STSEnabled /\ CustimeParseDuration(d.STSDurationString).err THEN "stsduration"
    ELSE IF d.STSEnabled /\ (d.STSPort < 0 \/ d.STSPort > 65535) THEN "stsport"
    ELSE IF d.IPCloakingEnabled /\ CloakProbeFails(d) THEN "cloaking"
    ELSE IF d.ThrottleEnabled /\ TimeParseDuration(d.ThrottleDurationString).err
         THEN "throttleduration"
    ELSE IF d.ThrottleEnabled /\ TimeParseDuration(d.ThrottleBanDurationString).err
         THEN "throttleban"
    ELSE IF d.LineLenTags < 512 \/ d.LineLenRest < 512 THEN "linelen"
    ELSE ""

\* as MaxSendQ, but an unparsable size is let through as zero
MaxSendQUnchecked(d) == [err |-> FALSE, value |-> ToBytes(d.MaxSendQString).value]

\* lines 494-497
MaxSendQ(d) == ToBytes(d.MaxSendQString)

\* lines 398-400, 421, 436, 440, 492, 494: the configuration LoadConfig returns
Configured(d, logConfigs) ==
    [d EXCEPT
        !.PassConfigPassword = IF d.ServerPassword # "" THEN d.ServerPassword ELSE @,
        !.STSDuration = IF d.STSEnabled
                        THEN CustimeParseDuration(d.STSDurationString).value ELSE @,
        !.ThrottleDuration = IF d.ThrottleEnabled
                             THEN TimeParseDuration(d.ThrottleDurationString).value ELSE @,
        !.ThrottleBanDuration = IF d.ThrottleEnabled
                                THEN TimeParseDuration(d.ThrottleBanDurationString).value
                                ELSE @,
        !.Logging = logConfigs,
        !.MaxSendQBytes = MaxSendQ(d).value]

Failed(kind) == [kind |-> kind, config |-> EmptyMap]

\* as LoadConfigResult, but the operator classes and the operators are assembled
\* as a step of the load, which fails when they cannot be
LoadConfigResultAssembling(f, d) ==
    IF f = "unreadable" THEN Failed("read")
    ELSE IF f = "malformed" THEN Failed("unmarshal")
    ELSE IF Validation(d) # "" THEN Failed(Validation(d))
    ELSE LET logs == NormalizeAll(d.Logging, <<>>)
         IN  IF logs.err # "" THEN Failed(logs.err)
             ELSE IF MaxSendQ(d).err THEN Failed("maxsendq")
             ELSE IF HasDanglingIn(d.OperClasses) \/ HasCycleIn(d.OperClasses)
                  THEN Failed("operclasses")
             ELSE IF \E o \in DOMAIN d.Opers : d.Opers[o].Class \notin DOMAIN d.OperClasses
                  THEN Failed("operators")
             ELSE [kind |-> "ok", config |-> Configured(d, logs.configs)]

\* lines 386-500
LoadConfigResult(f, d) ==
    IF f = "unreadable" THEN Failed("read")
    ELSE IF f = "malformed" THEN Failed("unmarshal")
    ELSE IF Validation(d) # "" THEN Failed(Validation(d))
    ELSE LET logs == NormalizeAll(d.Logging, <<>>)
         IN  IF logs.err # "" THEN Failed(logs.err)
             ELSE IF MaxSendQ(d).err THEN Failed("maxsendq")
             ELSE [kind |-> "ok", config |-> Configured(d, logs.configs)]

\* lines 387-395: the file cannot be read, is no document of the schema, or
\* holds a document
FileStates == {"unreadable", "malformed", "document"}

InitLoad ==
    /\ file \in FileStates
    /\ doc \in Documents
    /\ LoadIdle
    /\ OperClasses = EmptyMap
    /\ ClassesIdle
    /\ Opers = EmptyMap
    /\ oc = EmptyMap
    /\ BindIdle

LoadConfig ==
    /\ loaded.kind = "none"
    /\ loaded' = LoadConfigResult(file, doc)
    /\ UNCHANGED <<file, doc>>
    /\ UNCHANGED <<classVars, bindVars>>

NextLoad == LoadConfig

SpecLoad == InitLoad /\ [][NextLoad]_vars

(***************************************************************************)
(* Properties of Config.OperatorClasses                                    *)
(***************************************************************************)
Returned == pc = "idle" /\ ret.kind # "none"

HasDangling == HasDanglingIn(OperClasses)

HasCycle == HasCycleIn(OperClasses)

\* the union of the capabilities of the class and of its ancestors
InheritedCapabilities(name) ==
    UNION { Range(OperClasses[Ancestor(OperClasses, name, k)].Capabilities) :
              k \in { j \in 0..Cardinality(DOMAIN OperClasses) :
                        Ancestor(OperClasses, name, j) \in DOMAIN OperClasses } }

Vowels == {"a", "e", "i", "o", "u"}

\* the whois line the rule of the specification gives a title
RuleWhoisLine(title) ==
    IF Len(title) > 0 /\ ToLower(<<title[1]>>)[1] \in Vowels
    THEN <<"i", "s", " ", "a", "n", " ">> \o title
    ELSE <<"i", "s", " ", "a", " ">> \o title

\* C1 (as claimed): a section without extends cycle and without dangling extends
\* is assembled successfully, one entry per class, each holding the capabilities
\* of the class and of all its ancestors.
C1_AcyclicResolves ==
    (Returned /\ ~HasCycle /\ ~HasDangling) =>
        /\ ret.kind = "ok"
        /\ DOMAIN ret.classes = DOMAIN OperClasses
        /\ \A name \in DOMAIN OperClasses :
              ret.classes[name].Capabilities = InheritedCapabilities(name)

\* C2 (as claimed): an assembled class without explicit whois line gets
\* "is an <Title>" when its title starts with a vowel and "is a <Title>" otherwise.
C2_WhoisLineDefault ==
    \A name \in DOMAIN ocs :
        Len(OperClasses[name].WhoisLine) = 0 =>
            ocs[name].WhoisLine = RuleWhoisLine(OperClasses[name].Title)

\* C3 (as claimed): a section with a dangling extends always fails with the
\* missing-base error naming the extending class and the missing base.
C3_DanglingFails ==
    (Returned /\ HasDangling) =>
        /\ ret.kind = "missingbase"
        /\ ret.name \in DOMAIN OperClasses
        /\ Dangling(OperClasses, ret.name)
        /\ ret.extends = OperClasses[ret.name].Extends
        /\ ret.classes = EmptyMap

\* C4 (as claimed): a section with an extends cycle and no dangling extends always
\* fails with the looping-dependency error, raised at the first pass that starts
\* with the result mapping as large as it was when the pass before started.
C4_CycleFails ==
    /\ (Returned /\ HasCycle /\ ~HasDangling) =>
          ret.kind = "looping" /\ ret.classes = EmptyMap
    /\ (pc = "for" /\ lenOfLastOcs = Cardinality(DOMAIN ocs)) => ~ENABLED BeginPass
    /\ (Returned /\ ret.kind = "looping") => lenOfLastOcs = Cardinality(DOMAIN ocs)

\* C9 (as claimed): two calls on the same section, whatever order each visits the
\* classes in, end the same way: the same assembled mapping or the same kind of error.
C9_OrderIndependent ==
    (Returned /\ prevRet.kind # "none") =>
        /\ ret.kind = prevRet.kind
        /\ ret.classes = prevRet.classes

\* no class of the section makes line 307 index an empty title
NoEmptyTitleIndexed ==
    \A name \in DOMAIN OperClasses : ~TitleIndexPanics(OperClasses[name])

\* what is left of C1, C3, C4 and C9 on the sections in which every class has a
\* title or an explicit whois line: there each of them holds
HoldsWithTitles ==
    NoEmptyTitleIndexed =>
        /\ C1_AcyclicResolves
        /\ C3_DanglingFails
        /\ C4_CycleFails
        /\ C9_OrderIndependent

\* C10: inside a call an entry of the result mapping, once made, never changes
\* (title, whois line, contents of its capability map), and every assembled class
\* that extends another has its base in the result mapping.
C10_EntriesFrozen ==
    /\ [][pc # "idle" =>
            \A name \in DOMAIN ocs :
                /\ name \in DOMAIN ocs'
                /\ ocs'[name] = ocs[name]
                /\ heap'[ocs'[name].Capabilities] = heap[ocs[name].Capabilities]]_vars
    /\ [](\A name \in DOMAIN ocs :
            OperClasses[name].Extends # "" => OperClasses[name].Extends \in DOMAIN ocs)

\* a call returned a mapping after more than one pass, in which a derived class
\* holds capabilities its base does not hold
C10_Witness ==
    /\ Returned
    /\ ret.kind = "ok"
    /\ lenOfLastOcs > 0
    /\ \E name \in DOMAIN ocs :
          /\ OperClasses[name].Extends # ""
          /\ heap[ocs[name].Capabilities]
                # heap[ocs[OperClasses[name].Extends].Capabilities]

(***************************************************************************)
(* Properties of Config.Operators                                          *)
(***************************************************************************)
BindReturned == bindPc = "idle" /\ bindRet.kind # "none"

UnknownClassEntries == { name \in DOMAIN Opers : Opers[name].Class \notin DOMAIN oc }

\* C7 (as claimed): an entry whose class is no key of the assembled mapping makes
\* the call fail with the unknown-class error naming an operator and its class,
\* whatever the other fields of the entries are and whatever the visiting order.
C7_UnknownClassFails ==
    (BindReturned /\ UnknownClassEntries # {}) =>
        /\ bindRet.kind = "unknownclass"
        /\ bindRet.operators = EmptyMap
        /\ \E name \in UnknownClassEntries :
              /\ bindRet.class = Opers[name].Class
              /\ bindRet.name = CasefoldName(name).name

\* C7 (amended): such an entry makes the call end without an operator mapping;
\* the end is the unknown-class error naming the casefolded operator and its class
\* unless an entry visited no later has a name that does not casefold (casefold
\* error) or a password hash that does not decode (the process exits); when every
\* name casefolds and every hash decodes it is always the unknown-class error.
C7_UnknownClassFailsUnlessEarlierFailure ==
    (BindReturned /\ UnknownClassEntries # {}) =>
        /\ bindRet.kind \in {"unknownclass", "casefold", "fatal"}
        /\ bindRet.operators = EmptyMap
        /\ bindRet.kind = "unknownclass" =>
              \E name \in UnknownClassEntries :
                  /\ bindRet.class = Opers[name].Class
                  /\ bindRet.name = CasefoldName(name).name
        /\ bindRet.kind = "casefold" => CasefoldName(bindRet.name).err
        /\ bindRet.kind = "fatal" => DecodePasswordHash(Opers[bindRet.name].Password).err
        /\ (\A name \in DOMAIN Opers :
                /\ ~CasefoldName(name).err
                /\ ~DecodePasswordHash(Opers[name].Password).err)
              => bindRet.kind = "unknownclass"

\* the call failed with the unknown-class error after it attached another operator
C7_Witness ==
    /\ BindReturned
    /\ bindRet.kind = "unknownclass"
    /\ operators # EmptyMap
    /\ Cardinality(UnknownClassEntries) = 1

(***************************************************************************)
(* Properties of LoadConfig                                                *)
(***************************************************************************)
Loaded == loaded.kind # "none"

NoOperSections == [OperClasses |-> EmptyMap, Opers |-> EmptyMap]

\* the operator sections cannot be assembled
Unassemblable(d) ==
    \/ HasDanglingIn(d.OperClasses)
    \/ HasCycleIn(d.OperClasses)
    \/ \E o \in DOMAIN d.Opers : d.Opers[o].Class \notin DOMAIN d.OperClasses

MinimalBesidesSendQ(d) ==
    /\ d.NetworkName # ""
    /\ IsHostname(d.ServerName)
    /\ d.DatastorePath # ""
    /\ Len(d.Listen) = 1
    /\ d.NickLen >= 1 /\ d.ChannelLen >= 2 /\ d.AwayLen >= 1 /\ d.KickLen >= 1
    /\ d.TopicLen >= 1
    /\ d.LineLenTags >= 512 /\ d.LineLenRest >= 512
    /\ ~d.STSEnabled /\ d.STSDurationString = "" /\ d.STSPort = 0
    /\ ~d.IPCloakingEnabled
    /\ ~d.ThrottleEnabled /\ d.ThrottleDurationString = ""
    /\ d.ThrottleBanDurationString = ""
    /\ d.Logging = <<>>
    /\ d.ServerPassword = ""
    /\ d.OperClasses = EmptyMap /\ d.Opers = EmptyMap

\* the configuration carries the values of the required fields and limits
CarriesRequired(config, d) ==
    /\ config.NetworkName = d.NetworkName
    /\ config.ServerName = d.ServerName
    /\ config.DatastorePath = d.DatastorePath
    /\ config.Listen = d.Listen
    /\ config.NickLen = d.NickLen /\ config.ChannelLen = d.ChannelLen
    /\ config.AwayLen = d.AwayLen /\ config.KickLen = d.KickLen
    /\ config.TopicLen = d.TopicLen
    /\ config.LineLenTags = d.LineLenTags /\ config.LineLenRest = d.LineLenRest

\* C6 (as claimed): a minimally valid document, max-sendq absent, loads and the
\* configuration carries its values.
C6_MinimalLoads ==
    (Loaded /\ file = "document" /\ MinimalBesidesSendQ(doc)
        /\ doc.MaxSendQString = "") =>
        /\ loaded.kind = "ok"
        /\ CarriesRequired(loaded.config, doc)

\* C6 (amended): a minimally valid document that also sets max-sendq to a byte
\* size loads and the configuration carries its values; with max-sendq absent the
\* load fails on the send-queue size.
C6_MinimalLoadsWithSendQ ==
    (Loaded /\ file = "document" /\ MinimalBesidesSendQ(doc)) =>
        /\ ~ToBytes(doc.MaxSendQString).err =>
              /\ loaded.kind = "ok"
              /\ CarriesRequired(loaded.config, doc)
              /\ loaded.config.MaxSendQBytes = ToBytes(doc.MaxSendQString).value
        /\ ToBytes(doc.MaxSendQString).err => loaded.kind = "maxsendq"

\* a minimal document that sets max-sendq was loaded
C6_Witness ==
    /\ MinimalBesidesSendQ(doc)
    /\ loaded.kind = "ok"
    /\ loaded.config.MaxSendQBytes > 0

\* the non-empty fields of s between spaces
Tokens(s) ==
    { SubSeq(s, i, j) : <<i, j>> \in
        { p \in (1..Len(s)) \X (1..Len(s)) :
            /\ p[1] <= p[2]
            /\ \A k \in p[1]..p[2] : s[k] # " "
            /\ (p[1] = 1 \/ s[p[1] - 1] = " ")
            /\ (p[2] = Len(s) \/ s[p[2] + 1] = " ") } }

Marked(s) == { t \in Tokens(s) : t[1] = "-" }

Server == <<"s", "e", "r", "v", "e", "r">>
Connect == <<"c", "o", "n", "n", "e", "c", "t">>

\* C8: in a loaded configuration every directive's included types are the tokens
\* of its type string without the marker '-' (besides those the document preset),
\* its excluded types the other tokens with the marker stripped, and it includes
\* at least one type; a document with a token '-' or a directive that includes
\* nothing does not load; "file stdout", "info", "server -connect" gives file and
\* stdout, not stderr, included {server}, excluded {connect}.
C8_LoggingTypes ==
    /\ loaded.kind = "ok" =>
          \A i \in DOMAIN doc.Logging :
              LET raw == doc.Logging[i]
                  new == loaded.config.Logging[i]
              IN  /\ Range(new.Types) =
                        Range(raw.Types) \cup (Tokens(raw.TypeString) \ Marked(raw.TypeString))
                  /\ Range(new.ExcludedTypes) =
                        Range(raw.ExcludedTypes)
                            \cup { Tail(t) : t \in Marked(raw.TypeString) }
                  /\ Len(new.Types) >= 1
                  /\ (raw.Method = FileStdout /\ raw.LevelString = Info
                      /\ raw.TypeString = ServerConnect /\ raw.Types = <<>>
                      /\ raw.ExcludedTypes = <<>>) =>
                        /\ new.MethodFile /\ new.MethodStdout /\ ~new.MethodStderr
                        /\ new.Types = <<Server>>
                        /\ new.ExcludedTypes = <<Connect>>
    /\ Loaded =>
          \A i \in DOMAIN doc.Logging :
              LET raw == doc.Logging[i]
              IN  (\/ <<"-">> \in Tokens(raw.TypeString)
                   \/ (raw.Types = <<>> /\ Tokens(raw.TypeString) \subseteq Marked(raw.TypeString)))
                    => loaded.kind # "ok"

\* the directive "file stdout", "info", "server -connect" was loaded
C8_Witness ==
    /\ loaded.kind = "ok"
    /\ \E i \in DOMAIN doc.Logging :
          /\ doc.Logging[i].Method = FileStdout
          /\ doc.Logging[i].TypeString = ServerConnect
          /\ doc.Logging[i].Types = <<>>
          /\ loaded.config.Logging[i].ExcludedTypes = <<Connect>>

====
